---------------------------- MODULE Spec2Model ----------------------------
(***************************************************************************)
(* A model of the trading pipeline of the repository:                      *)
(*   TradingEngine      (src/unnamed/part_000)                             *)
(*   AIDecisionEngine   (src/decisionengine.ts)                            *)
(*   StrategyRegistry   (src/unnamed/part_003, lines 104-431)              *)
(*                                                                         *)
(* Numbers.  JavaScript numbers are modelled by integers in fixed units:   *)
(*   confidence and market score   1 unit = 0.0001  (1.0 is 10000)         *)
(*   USD amounts                   1 unit = 1 USD                          *)
(*   gas estimates (ETH)           1 unit = 0.001 ETH                      *)
(* A confidence is a record [nan, v]: nan = TRUE is the IEEE value NaN,    *)
(* on which every comparison is false and which arithmetic, Math.min and   *)
(* Math.max propagate.  All inputs are multiples of 0.01, so every product *)
(* below is exact.                                                         *)
(***************************************************************************)
EXTENDS Integers, Sequences, FiniteSets, TLC

VARIABLES
    config,              \* the imported config object (thresholds, risk limits)
    registry,            \* StrategyRegistry.strategies: id -> Strategy
    isRunning,           \* TradingEngine.isRunning
    activeStrategies,    \* TradingEngine.activeStrategies (a Map, in insertion order)
    startsPending,       \* start() calls suspended at `await initializeStrategies()`
    loopTimers,          \* live setInterval handles created by startTradingLoop
    perfTimers,          \* live setInterval handles created by startPerformanceMonitoring
    calls,               \* number of control-surface calls made so far
    lastCall,            \* what the last control-surface call did
    emits,               \* number of emissions per event name (a log), and the
                         \* number of trade_executed emitted before the last reset
    metrics,             \* TradingEngine.metrics
    tradeHistory,        \* TradingEngine.tradeHistory
    cycles,              \* the invocations of processTradingCycle: locals and position
    cycleCount,          \* number of cycles started so far
    evaluationHistory,   \* AIDecisionEngine.evaluationHistory: id -> evaluation
    lastRequest,         \* the arguments of the last direct evaluateOpportunity call
    lastEvaluation,      \* the value that call returned
    lastCheck,           \* the last direct checkRiskLimits call and its answer
    registryOrder,       \* StrategyRegistry.strategies: its keys, in insertion order
    registryActive       \* StrategyRegistry.activeStrategies (a Set of ids)

vars == <<config, registry, isRunning, activeStrategies, startsPending, loopTimers,
          perfTimers, calls, lastCall, emits, metrics, tradeHistory, cycles,
          cycleCount, evaluationHistory, lastRequest, lastEvaluation, lastCheck,
                   registryOrder, registryActive>>

(***************************************************************************)
(* Bounds of the model.                                                    *)
(***************************************************************************)
MaxCycles == 2      \* trading cycles started in one behaviour
MaxRuns == 1        \* the same, under SpecCycle
MaxCalls == 3       \* start()/stop()/resetMetrics() calls made in one behaviour
MaxRecords == 3     \* length of the trade history under SpecMetrics
MaxUpdates == 3     \* updateStrategyPerformance calls on registered strategies
MaxPerfUpdates == 2 \* performance_update emissions in one behaviour

(***************************************************************************)
(* JavaScript numbers that may be NaN.                                     *)
(***************************************************************************)
Num(x) == [nan |-> FALSE, v |-> x]
NaN == [nan |-> TRUE, v |-> 0]

\* c + d for a finite d
FAdd(c, d) == IF c.nan THEN NaN ELSE Num(c.v + d)
\* c * s for a market score s (units of 0.0001)
FMul(c, s) == IF c.nan THEN NaN ELSE Num((c.v * s) \div 10000)
\* c < t, c >= t for a finite t: false on NaN
FLt(c, t) == (~c.nan) /\ c.v < t
FGe(c, t) == (~c.nan) /\ c.v >= t
\* Math.min(t, c) and Math.max(t, c) for a finite t: NaN if c is NaN
MathMin(t, c) == IF c.nan THEN NaN ELSE Num(IF c.v < t THEN c.v ELSE t)
MathMax(t, c) == IF c.nan THEN NaN ELSE Num(IF c.v > t THEN c.v ELSE t)

IntMax(a, b) == IF a > b THEN a ELSE b
IntMin(a, b) == IF a < b THEN a ELSE b
Abs(x) == IF x < 0 THEN -x ELSE x

(***************************************************************************)
(* AIDecisionEngine (src/decisionengine.ts).                               *)
(*                                                                         *)
(* An opportunity is [id, confidence, profitUSD, gasEstimate].  What the   *)
(* evaluation reads from outside the opportunity is its environment:       *)
(*   pred  the outcome of neuralNetworkPredictor.predictProfit:            *)
(*         [ok |-> TRUE, value |-> predicted USD] or [ok |-> FALSE] for a  *)
(*         rejected promise                                                *)
(*   hour  new Date().getHours()                                           *)
(*   age   Date.now() - opportunity.timestamp.getTime(), in ms             *)
(***************************************************************************)
PredFail == [ok |-> FALSE, value |-> 0]
Pred(x) == [ok |-> TRUE, value |-> x]

\* predictedProfit / opportunity.profitUSD > 1.2, with IEEE division by zero
AlignmentHigh(predicted, profitUSD) ==
    \/ profitUSD > 0 /\ 10 * predicted > 12 * profitUSD
    \/ profitUSD < 0 /\ 10 * predicted < 12 * profitUSD
    \/ profitUSD = 0 /\ predicted > 0

\* predictedProfit / opportunity.profitUSD < 0.8, with IEEE division by zero
AlignmentLow(predicted, profitUSD) ==
    \/ profitUSD > 0 /\ 10 * predicted < 8 * profitUSD
    \/ profitUSD < 0 /\ 10 * predicted > 8 * profitUSD
    \/ profitUSD = 0 /\ predicted < 0

\* step 1: the change of confidence made inside the try block
PredictionDelta(opp, pred) ==
    IF ~pred.ok THEN 0
    ELSE IF AlignmentHigh(pred.value, opp.profitUSD) THEN 1000
    ELSE IF AlignmentLow(pred.value, opp.profitUSD) THEN -1000
    ELSE 0

\* step 1: the reasoning pushed inside the try block
PredictionReasoning(opp, pred) ==
    IF ~pred.ok THEN <<>>
    ELSE IF AlignmentHigh(pred.value, opp.profitUSD)
         THEN <<"AI predicts higher than expected profit">>
    ELSE IF AlignmentLow(pred.value, opp.profitUSD)
         THEN <<"AI predicts lower than expected profit">>
    ELSE <<>>

\* step 1: adjustedProfit after the try block
PredictedProfit(opp, pred) == IF pred.ok THEN pred.value ELSE opp.profitUSD

\* analyzeMarketConditions: the score, in units of 0.0001
AnalyzeMarketConditions(opp, hour) ==
    LET timeFactor == IF hour >= 9 /\ hour <= 17 THEN 110 ELSE 90
        sizeFactor == IF opp.profitUSD > 50 THEN 120
                      ELSE IF opp.profitUSD < 5 THEN 80 ELSE 100
    IN  IntMax(1000, IntMin(20000, timeFactor * sizeFactor))

\* mutant: the age of the opportunity adds nothing to the score
RiskScore_NoAge(opp, confidence, age) ==
      (IF opp.profitUSD > 100 THEN 2 ELSE IF opp.profitUSD > 50 THEN 1 ELSE 0)
    + (IF opp.gasEstimate > 50 THEN 2 ELSE IF opp.gasEstimate > 20 THEN 1 ELSE 0)
    + (IF FLt(confidence, 5000) THEN 2 ELSE IF FLt(confidence, 7000) THEN 1 ELSE 0)

\* assessRisk: the additive score
RiskScore(opp, confidence, age) ==
      (IF opp.profitUSD > 100 THEN 2 ELSE IF opp.profitUSD > 50 THEN 1 ELSE 0)
    + (IF opp.gasEstimate > 50 THEN 2 ELSE IF opp.gasEstimate > 20 THEN 1 ELSE 0)
    + (IF FLt(confidence, 5000) THEN 2 ELSE IF FLt(confidence, 7000) THEN 1 ELSE 0)
    + (IF age > 30000 THEN 2 ELSE IF age > 10000 THEN 1 ELSE 0)

AssessRisk(opp, confidence, age) ==
    LET riskScore == RiskScore(opp, confidence, age)
    IN  IF riskScore >= 4 THEN "HIGH"
        ELSE IF riskScore >= 2 THEN "MEDIUM" ELSE "LOW"

\* mutant: the excess is not floored at zero
OptimizeGasCosts_NoFloor(opp) == (opp.gasEstimate - 10) * 2

\* optimizeGasCosts: excessCost in USD (optimalGas 0.01 ETH, 2000 USD per ETH)
OptimizeGasCosts(opp) == IntMax(0, opp.gasEstimate - 10) * 2

\* step 5: Math.max(0, Math.min(1, confidence))
ClampConfidence(confidence) == MathMax(0, MathMin(10000, confidence))

\* mutant: HIGH risk does not hold back an execution
MakeRecommendation_IgnoresRisk(cfg, confidence, risk, profit) ==
    IF FGe(confidence, cfg.confidenceThreshold) /\ profit > cfg.minProfitThresholdUSD
    THEN "EXECUTE"
    ELSE IF 2 * profit < cfg.minProfitThresholdUSD \/ FLt(confidence, 3000)
         THEN "SKIP"
         ELSE "WAIT"

\* makeRecommendation
MakeRecommendation(cfg, confidence, risk, profit) ==
    IF FGe(confidence, cfg.confidenceThreshold) /\ profit > cfg.minProfitThresholdUSD
    THEN IF risk = "HIGH" /\ FLt(confidence, 9000) THEN "WAIT" ELSE "EXECUTE"
    ELSE IF 2 * profit < cfg.minProfitThresholdUSD \/ FLt(confidence, 3000)
         THEN "SKIP"
         ELSE "WAIT"

\* mutant: the predictor's adjustment is applied after the market multiplier
EvaluateOpportunity_DeltaAfterMultiplier(cfg, opp, env) ==
    LET marketScore == AnalyzeMarketConditions(opp, env.hour)
        c2 == FAdd(FMul(opp.confidence, marketScore), PredictionDelta(opp, env.pred))
        risk == AssessRisk(opp, c2, env.age)
        adjustedProfit == PredictedProfit(opp, env.pred) - OptimizeGasCosts(opp)
        confidence == ClampConfidence(c2)
    IN  [confidence |-> confidence,
         adjustedProfit |-> adjustedProfit,
         risk |-> risk,
         recommendation |-> MakeRecommendation(cfg, confidence, risk, adjustedProfit),
         reasoning |-> PredictionReasoning(opp, env.pred)
                       \o <<"Market condition score", "Risk level", "Gas optimization">>]

\* evaluateOpportunity: the AIEvaluation it builds, stores and returns
EvaluateOpportunity(cfg, opp, env) ==
    LET c1 == FAdd(opp.confidence, PredictionDelta(opp, env.pred))
        marketScore == AnalyzeMarketConditions(opp, env.hour)
        c2 == FMul(c1, marketScore)
        risk == AssessRisk(opp, c2, env.age)
        adjustedProfit == PredictedProfit(opp, env.pred) - OptimizeGasCosts(opp)
        confidence == ClampConfidence(c2)
    IN  [confidence |-> confidence,
         adjustedProfit |-> adjustedProfit,
         risk |-> risk,
         recommendation |-> MakeRecommendation(cfg, confidence, risk, adjustedProfit),
         reasoning |-> PredictionReasoning(opp, env.pred)
                       \o <<"Market condition score", "Risk level", "Gas optimization">>]

\* this.evaluationHistory.set(opportunity.id, evaluation)
HistorySet(history, id, evaluation) ==
    [k \in DOMAIN history \cup {id} |-> IF k = id THEN evaluation ELSE history[k]]


(***************************************************************************)
(* StrategyRegistry (src/unnamed/part_003).                                *)
(***************************************************************************)
\* the identities the constructor registers, in registration order
StrategyIds == <<"A", "B">>

\* getAllEnabledStrategies: the enabled strategies, in registration order
GetAllEnabledStrategies(order, reg) == SelectSeq(order, LAMBDA id : reg[id].enabled)

\* the priority a strategy is registered with: the constructor numbers its
\* strategies in registration order; C is one registered later, at priority 1
PriorityOf(id) == CASE id = "A" -> 1 [] id = "B" -> 2 [] OTHER -> 1

\* A success rate is a quotient of integers, kept exactly: num / den.
Rate(n, d) == [num |-> n, den |-> d]

\* A Strategy as the registry stores it.  The code keeps no record of the last
\* four fields; they log where the strategy started and what was reported:
\*   initialTrades, initialRate   totalTrades and successRate when registered
\*   reports                      the updates made
\*   successes                    the updates made with success = true
StrategyRecord(enabled, priority, totalTrades, successRate, totalProfitUSD) ==
    [enabled |-> enabled, priority |-> priority, totalTrades |-> totalTrades,
     successRate |-> successRate,
     totalProfitUSD |-> totalProfitUSD, initialTrades |-> totalTrades,
     initialRate |-> successRate, reports |-> 0, successes |-> 0]

\* mutant: the average is weighted by the count after the increment
UpdateStrategyPerformance_PostCount(reg, id, success, profit) ==
    IF id \notin DOMAIN reg THEN reg
    ELSE LET n == reg[id].totalTrades + 1
             old == reg[id].successRate
         IN  [reg EXCEPT
                ![id].totalTrades = n,
                ![id].successRate = Rate(old.num * n
                                           + (IF success THEN 100 * old.den ELSE 0),
                                         old.den * n),
                ![id].totalProfitUSD = IF success THEN @ + profit ELSE @ - Abs(profit),
                ![id].reports = @ + 1,
                ![id].successes = IF success THEN @ + 1 ELSE @]

\* updateStrategyPerformance: nothing happens for an id that is not registered
UpdateStrategyPerformance(reg, id, success, profit) ==
    IF id \notin DOMAIN reg THEN reg
    ELSE LET n == reg[id].totalTrades + 1
             old == reg[id].successRate
         IN  [reg EXCEPT
                ![id].totalTrades = n,
                ![id].successRate = Rate(old.num * (n - 1)
                                           + (IF success THEN 100 * old.den ELSE 0),
                                         old.den * n),
                ![id].totalProfitUSD = IF success THEN @ + profit ELSE @ - Abs(profit),
                ![id].reports = @ + 1,
                ![id].successes = IF success THEN @ + 1 ELSE @]

\* Map.set(id, strategy): the keys keep their position, a new key goes last
MapSet(reg, id, strategy) ==
    [k \in DOMAIN reg \cup {id} |-> IF k = id THEN strategy ELSE reg[k]]

KeysAfterSet(order, id) ==
    IF \E i \in DOMAIN order : order[i] = id THEN order ELSE Append(order, id)

\* registerStrategy: what it does to the active set
ActiveAfterRegister(active, id, strategy) ==
    IF strategy.enabled THEN active \cup {id} ELSE active

\* activateStrategy and deactivateStrategy: nothing happens for an unknown id
ActivateStrategy(reg, id) ==
    IF id \in DOMAIN reg THEN [reg EXCEPT ![id].enabled = TRUE] ELSE reg

ActiveAfterActivate(reg, active, id) ==
    IF id \in DOMAIN reg THEN active \cup {id} ELSE active

DeactivateStrategy(reg, id) ==
    IF id \in DOMAIN reg THEN [reg EXCEPT ![id].enabled = FALSE] ELSE reg

ActiveAfterDeactivate(reg, active, id) ==
    IF id \in DOMAIN reg THEN active \ {id} ELSE active

\* the default limit of getTopPerformingStrategies
DefaultLimit == 10

\* Array.prototype.sort((a, b) => b.totalProfitUSD - a.totalProfitUSD): stable
RECURSIVE InsertByProfit(_, _, _)
InsertByProfit(reg, sorted, id) ==
    IF sorted = <<>> THEN <<id>>
    ELSE IF reg[id].totalProfitUSD > reg[sorted[1]].totalProfitUSD
         THEN <<id>> \o sorted
         ELSE <<sorted[1]>> \o InsertByProfit(reg, Tail(sorted), id)

RECURSIVE SortByProfit(_, _, _)
SortByProfit(reg, sorted, ids) ==
    IF ids = <<>> THEN sorted
    ELSE SortByProfit(reg, InsertByProfit(reg, sorted, ids[1]), Tail(ids))

\* getTopPerformingStrategies(limit): the ids of the strategies it returns
GetTopPerformingStrategies(order, reg, limit) ==
    LET sorted == SortByProfit(reg, <<>>, order)
    IN  SubSeq(sorted, 1, IntMin(limit, Len(sorted)))

(***************************************************************************)
(* TradingEngine (src/unnamed/part_000): metrics and risk limits.          *)
(*                                                                         *)
(* successRate, winRate, profitFactor and averageTradeTime are quotients;  *)
(* they are kept in units of 0.01, rounded down.                           *)
(***************************************************************************)
\* initializeMetrics
InitialMetrics ==
    [totalTrades |-> 0, successfulTrades |-> 0, failedTrades |-> 0,
     totalProfitUSD |-> 0, totalLossUSD |-> 0, netProfitUSD |-> 0,
     averageTradeTime |-> 0, tradesPerSecond |-> 0, successRate |-> 0,
     sharpeRatio |-> 0, maxDrawdown |-> 0, winRate |-> 0, profitFactor |-> 0]

RECURSIVE SumExecutionTime(_)
SumExecutionTime(history) ==
    IF history = <<>> THEN 0
    ELSE history[1].executionTime + SumExecutionTime(Tail(history))

\* mutant: profitFactor is computed whatever totalLossUSD is; -1 stands for the
\* quotient by zero
UpdateDerivedMetrics_AlwaysDivides(m, history) ==
    LET rate == IF m.totalTrades > 0
                THEN (m.successfulTrades * 10000) \div m.totalTrades
                ELSE m.successRate
        m1 == [m EXCEPT !.successRate = rate,
                        !.winRate = IF m.totalTrades > 0 THEN rate ELSE @]
        m2 == [m1 EXCEPT !.profitFactor =
                             IF m1.totalLossUSD > 0
                             THEN (m1.totalProfitUSD * 100) \div m1.totalLossUSD
                             ELSE -1]
    IN  IF Len(history) > 0
        THEN [m2 EXCEPT !.averageTradeTime =
                            (SumExecutionTime(history) * 100) \div Len(history)]
        ELSE m2

\* updateDerivedMetrics, on the metrics m and the trade history
UpdateDerivedMetrics(m, history) ==
    LET rate == IF m.totalTrades > 0
                THEN (m.successfulTrades * 10000) \div m.totalTrades
                ELSE m.successRate
        m1 == [m EXCEPT !.successRate = rate,
                        !.winRate = IF m.totalTrades > 0 THEN rate ELSE @]
        m2 == IF m1.totalLossUSD > 0
              THEN [m1 EXCEPT !.profitFactor =
                                  (m1.totalProfitUSD * 100) \div m1.totalLossUSD]
              ELSE m1
    IN  IF Len(history) > 0
        THEN [m2 EXCEPT !.averageTradeTime =
                            (SumExecutionTime(history) * 100) \div Len(history)]
        ELSE m2

\* mutant: a failure adds its profit, not the magnitude of it, to the loss
RecordTradeResult_SignedLoss(m, history, result) ==
    LET m1 == [m EXCEPT !.totalTrades = @ + 1]
        m2 == IF result.success
              THEN [m1 EXCEPT !.successfulTrades = @ + 1,
                              !.totalProfitUSD = @ + result.profitUSD,
                              !.netProfitUSD = @ + result.profitUSD]
              ELSE [m1 EXCEPT !.failedTrades = @ + 1,
                              !.totalLossUSD = @ + result.profitUSD,
                              !.netProfitUSD = @ - result.profitUSD]
    IN  UpdateDerivedMetrics(m2, history)

\* mutant: a failure is not counted in failedTrades
RecordTradeResult_FailuresUncounted(m, history, result) ==
    LET m1 == [m EXCEPT !.totalTrades = @ + 1]
        m2 == IF result.success
              THEN [m1 EXCEPT !.successfulTrades = @ + 1,
                              !.totalProfitUSD = @ + result.profitUSD,
                              !.netProfitUSD = @ + result.profitUSD]
              ELSE [m1 EXCEPT !.totalLossUSD = @ + Abs(result.profitUSD),
                              !.netProfitUSD = @ - Abs(result.profitUSD)]
    IN  UpdateDerivedMetrics(m2, history)

\* mutant: every record starts again from the zero metrics
RecordTradeResult_FromZero(m, history, result) ==
    LET m1 == [InitialMetrics EXCEPT !.totalTrades = @ + 1]
        m2 == IF result.success
              THEN [m1 EXCEPT !.successfulTrades = @ + 1,
                              !.totalProfitUSD = @ + result.profitUSD,
                              !.netProfitUSD = @ + result.profitUSD]
              ELSE [m1 EXCEPT !.failedTrades = @ + 1,
                              !.totalLossUSD = @ + Abs(result.profitUSD),
                              !.netProfitUSD = @ - Abs(result.profitUSD)]
    IN  UpdateDerivedMetrics(m2, history)

\* recordTradeResult: the metrics after recording result; history is the trade
\* history with the result already pushed
RecordTradeResult(m, history, result) ==
    LET m1 == [m EXCEPT !.totalTrades = @ + 1]
        m2 == IF result.success
              THEN [m1 EXCEPT !.successfulTrades = @ + 1,
                              !.totalProfitUSD = @ + result.profitUSD,
                              !.netProfitUSD = @ + result.profitUSD]
              ELSE [m1 EXCEPT !.failedTrades = @ + 1,
                              !.totalLossUSD = @ + Abs(result.profitUSD),
                              !.netProfitUSD = @ - Abs(result.profitUSD)]
    IN  UpdateDerivedMetrics(m2, history)

\* mutant: the limits are enforced whatever enableRiskLimits says
CheckRiskLimits_AlwaysEnforced(cfg, m, opp) ==
    IF opp.profitUSD > cfg.maxPositionSizeETH * 2000 THEN FALSE
    ELSE IF m.totalLossUSD > cfg.maxDailyLossETH * 2000 THEN FALSE
    ELSE TRUE

\* mutant: no limit on the position size
CheckRiskLimits_NoPositionLimit(cfg, m, opp) ==
    IF ~cfg.enableRiskLimits THEN TRUE
    ELSE IF m.totalLossUSD > cfg.maxDailyLossETH * 2000 THEN FALSE
    ELSE TRUE

\* mutant: a cumulative loss equal to the limit is refused
CheckRiskLimits_LossAtLimitRefused(cfg, m, opp) ==
    IF ~cfg.enableRiskLimits THEN TRUE
    ELSE IF opp.profitUSD > cfg.maxPositionSizeETH * 2000 THEN FALSE
    ELSE IF m.totalLossUSD >= cfg.maxDailyLossETH * 2000 THEN FALSE
    ELSE TRUE

\* checkRiskLimits
CheckRiskLimits(cfg, m, opp) ==
    IF ~cfg.enableRiskLimits THEN TRUE
    ELSE IF opp.profitUSD > cfg.maxPositionSizeETH * 2000 THEN FALSE
    ELSE IF m.totalLossUSD > cfg.maxDailyLossETH * 2000 THEN FALSE
    ELSE TRUE

\* mutant: a failed trade carries the opportunity's profit
TradeResult_FailureKeepsProfit(opp, success, executionTime) ==
    [strategyId |-> "unknown",
     opportunity |-> opp.id,
     success |-> success,
     profitUSD |-> opp.profitUSD,
     gasUsed |-> IF success THEN opp.gasEstimate ELSE 0,
     executionTime |-> executionTime]

\* the TradeResult built by executeOpportunity once performTrade has returned
TradeResult(opp, success, executionTime) ==
    [strategyId |-> "unknown",
     opportunity |-> opp.id,
     success |-> success,
     profitUSD |-> IF success THEN opp.profitUSD ELSE 0,
     gasUsed |-> IF success THEN opp.gasEstimate ELSE 0,
     executionTime |-> executionTime]


(***************************************************************************)
(* TradingEngine: one invocation of processTradingCycle.                   *)
(*                                                                         *)
(* The suspension points of a cycle are the awaits on its collaborators:   *)
(* executeStrategy (the opportunity source), evaluateOpportunity (the      *)
(* profit predictor inside it) and performTrade (the execution backend).   *)
(* Each may resolve or reject.  A cycle record holds the locals of the     *)
(* invocation and where it is suspended:                                   *)
(*   "sourcing"    awaiting executeStrategy(activeStrategies[si])          *)
(*   "evaluating"  awaiting evaluateOpportunity of the next opportunity    *)
(*   "executing"   about to call executeOpportunity(queue[xi + 1])         *)
(*   "trading"     awaiting performTrade(queue[xi + 1])                    *)
(*   "done"        processTradingCycle returned                            *)
(*   "failed"      processTradingCycle threw into the timer callback       *)
(* The code keeps no record of the following fields; they log what the     *)
(* invocation did:                                                         *)
(*   polled          the strategies passed to executeStrategy, in order    *)
(*   produced        the ids of the opportunities the sources returned     *)
(*   raised          the strategies whose executeStrategy rejected         *)
(*   attempts        the ids passed to executeOpportunity, in order        *)
(*   outcomes        [id, outcome] of every performTrade that settled      *)
(*   runningAtEntry  isRunning when findOpportunities was entered          *)
(*   afterFailure    an earlier cycle had failed when this one started     *)
(*   stopSeen        stop() took effect while the cycle was in flight      *)
(***************************************************************************)
IdleCycle ==
    [pc |-> "idle", si |-> 0, opportunities |-> <<>>,
     evaluatedOpportunities |-> <<>>, queue |-> <<>>, xi |-> 0,
     polled |-> <<>>, produced |-> <<>>, raised |-> {}, attempts |-> <<>>,
     outcomes |-> <<>>,
     runningAtEntry |-> FALSE, afterFailure |-> FALSE, stopSeen |-> FALSE]

InFlight(r) == r.pc \in {"sourcing", "evaluating", "executing", "trading"}

\* stable insertion of x into a sequence sorted by confidence, descending:
\* x goes behind every element whose confidence is not smaller
RECURSIVE InsertByConfidence(_, _)
InsertByConfidence(sorted, x) ==
    IF sorted = <<>> THEN <<x>>
    ELSE IF x.confidence.v > sorted[1].confidence.v
         THEN <<x>> \o sorted
         ELSE <<sorted[1]>> \o InsertByConfidence(Tail(sorted), x)

RECURSIVE SortFrom(_, _)
SortFrom(sorted, rest) ==
    IF rest = <<>> THEN sorted
    ELSE SortFrom(InsertByConfidence(sorted, rest[1]), Tail(rest))

\* mutant: the evaluated opportunities are returned unsorted
SortByConfidence_Unsorted(opps) == opps

\* evaluatedOpportunities.sort((a, b) => b.confidence - a.confidence):
\* Array.prototype.sort is stable
SortByConfidence(opps) == SortFrom(<<>>, opps)

\* mutant: nothing is filtered out
FilterHighConfidence_KeepsAll(cfg, opps) == opps

\* the filter of processTradingCycle
FilterHighConfidence(cfg, opps) ==
    SelectSeq(opps, LAMBDA o : FGe(o.confidence, cfg.confidenceThreshold))

\* the copy evaluateOpportunities pushes:
\* {...opportunity, confidence, profitUSD: adjustedProfit || opportunity.profitUSD}
Evaluated(opp, evaluation) ==
    [opp EXCEPT !.confidence = evaluation.confidence,
                !.profitUSD = IF evaluation.adjustedProfit # 0
                              THEN evaluation.adjustedProfit
                              ELSE opp.profitUSD]

\* mutant: the for loop gives up once the engine has been stopped
AfterExecute_AbortWhenStopped(r) ==
    IF r.xi < Len(r.queue) /\ ~r.stopSeen THEN [r EXCEPT !.pc = "executing"]
    ELSE [r EXCEPT !.pc = "done"]

\* the for loop of processTradingCycle after executeOpportunity(queue[xi]) returned
AfterExecute(r) ==
    IF r.xi < Len(r.queue) THEN [r EXCEPT !.pc = "executing"]
    ELSE [r EXCEPT !.pc = "done"]

\* processTradingCycle once evaluateOpportunities has returned
AfterEvaluate(cfg, r) ==
    LET queue == FilterHighConfidence(cfg, SortByConfidence(r.evaluatedOpportunities))
    IN  AfterExecute([r EXCEPT !.queue = queue, !.xi = 0])

\* mutant: filtering and execution begin once one opportunity is evaluated
ContinueEvaluate_Eager(cfg, r) ==
    IF r.evaluatedOpportunities = <<>> /\ r.opportunities # <<>>
    THEN [r EXCEPT !.pc = "evaluating"]
    ELSE AfterEvaluate(cfg, r)

\* the for loop of evaluateOpportunities
ContinueEvaluate(cfg, r) ==
    IF Len(r.evaluatedOpportunities) < Len(r.opportunities)
    THEN [r EXCEPT !.pc = "evaluating"]
    ELSE AfterEvaluate(cfg, r)

\* the for loop of findOpportunities over this.activeStrategies.values()
ContinueSourcing(cfg, active, r) ==
    IF r.si < Len(active)
    THEN [r EXCEPT !.pc = "sourcing", !.si = @ + 1,
                   !.polled = Append(@, active[r.si + 1])]
    ELSE ContinueEvaluate(cfg, r)

\* mutant: findOpportunities without its try/catch
PollRaised_Rethrown(cfg, active, r) ==
    [r EXCEPT !.raised = @ \cup {active[r.si]}, !.pc = "failed"]

\* the catch block of findOpportunities: the strategy is logged and skipped
PollRaised(cfg, active, r) ==
    ContinueSourcing(cfg, active, [r EXCEPT !.raised = @ \cup {active[r.si]}])

\* opportunities.push(...strategyOpportunities)
PollResolved(cfg, active, r, opps) ==
    ContinueSourcing(cfg, active, [r EXCEPT !.opportunities = @ \o opps])

\* mutant: an execution that throws ends the for loop
TradeRaised_Aborts(r) == [r EXCEPT !.xi = @ + 1, !.pc = "done"]

\* the catch block of executeOpportunity: the error is logged
TradeRaised(r) == AfterExecute([r EXCEPT !.xi = @ + 1])

\* mutant: a refused opportunity is handed to performTrade all the same
RiskRejected_TradesAnyway(r) == [r EXCEPT !.pc = "trading"]

\* the early return of executeOpportunity when checkRiskLimits refuses
RiskRejected(r) == AfterExecute([r EXCEPT !.xi = @ + 1])


(***************************************************************************)
(* Inputs of the model.                                                    *)
(***************************************************************************)
\* the config object considered: risk limits on, 1 ETH each
EngineConfigs ==
    { [enableRiskLimits |-> TRUE, maxPositionSizeETH |-> 1, maxDailyLossETH |-> 1,
       confidenceThreshold |-> 8000, minProfitThresholdUSD |-> 10] }

\* what a strategy's opportunity source may produce in one poll
SourceKinds == { [confidence |-> Num(8000), profitUSD |-> 40, gasEstimate |-> 5] }

Opportunity(strategy, cycle, kind) ==
    [id |-> <<strategy, cycle>>, confidence |-> kind.confidence,
     profitUSD |-> kind.profitUSD, gasEstimate |-> kind.gasEstimate]

\* the environments of an evaluation inside a cycle: the predictor fails in and
\* out of business hours, or predicts a much larger profit
EngineEnvs ==
    { [pred |-> PredFail, hour |-> 12, age |-> 0],
      [pred |-> PredFail, hour |-> 20, age |-> 0],
      [pred |-> Pred(2500), hour |-> 12, age |-> 0] }

\* Date.now() - startTime in executeOpportunity
ExecutionTimes == {2}

Cycles == 1 .. MaxCycles

(***************************************************************************)
(* The control surface: start() and stop().                                *)
(***************************************************************************)
\* mutant: start() without its early return
StartRefused_Never(running) == FALSE

\* the early return of start(): line 41
StartRefused(running) == running

\* the early return of stop(): line 63
StopRefused(running) == ~running

\* Map.set of every enabled strategy, in registration order
RECURSIVE MapSetAll(_, _)
MapSetAll(active, ids) ==
    IF ids = <<>> THEN active
    ELSE MapSetAll(IF \E i \in DOMAIN active : active[i] = ids[1]
                   THEN active ELSE Append(active, ids[1]),
                   Tail(ids))

\* initializeStrategies: it has no await, so it runs inside the call of start()
InitializeStrategies(active, order, reg) ==
    MapSetAll(active, GetAllEnabledStrategies(order, reg))

\* start() up to its await
StartCall ==
    /\ calls < MaxCalls
    /\ calls' = calls + 1
    /\ IF StartRefused(isRunning)
       THEN /\ lastCall' = "start_noop"
            /\ UNCHANGED <<isRunning, activeStrategies, startsPending>>
       ELSE /\ lastCall' = "start"
            /\ isRunning' = TRUE
            /\ activeStrategies' = InitializeStrategies(activeStrategies, registryOrder,
                                                        registry)
            /\ startsPending' = startsPending + 1
    /\ UNCHANGED <<config, registry, loopTimers, perfTimers, emits, metrics,
                   tradeHistory, cycles, cycleCount, evaluationHistory,
                   lastRequest,
                   lastEvaluation, lastCheck,
                   registryOrder, registryActive>>

\* start() after its await: startTradingLoop, startPerformanceMonitoring, emit
StartResume ==
    /\ startsPending > 0
    /\ startsPending' = startsPending - 1
    /\ loopTimers' = loopTimers + 1
    /\ perfTimers' = perfTimers + 1
    /\ emits' = [emits EXCEPT !.engine_started = @ + 1]
    /\ UNCHANGED <<config, registry, isRunning, activeStrategies, calls, lastCall,
                   metrics, tradeHistory, cycles, cycleCount, evaluationHistory,
                   lastRequest,
                   lastEvaluation, lastCheck,
                   registryOrder, registryActive>>

\* stop()
StopCall ==
    /\ calls < MaxCalls
    /\ calls' = calls + 1
    /\ IF StopRefused(isRunning)
       THEN /\ lastCall' = "stop_noop"
            /\ UNCHANGED <<isRunning, emits, cycles>>
       ELSE /\ lastCall' = "stop"
            /\ isRunning' = FALSE
            /\ emits' = [emits EXCEPT !.engine_stopped = @ + 1]
            /\ cycles' = [c \in Cycles |->
                             IF InFlight(cycles[c])
                             THEN [cycles[c] EXCEPT !.stopSeen = TRUE]
                             ELSE cycles[c]]
    /\ UNCHANGED <<config, registry, activeStrategies, startsPending, loopTimers,
                   perfTimers, metrics, tradeHistory, cycleCount, evaluationHistory,
                   lastRequest,
                   lastEvaluation, lastCheck,
                   registryOrder, registryActive>>

\* mutant: resetMetrics keeps the trade history
HistoryAfterReset_Kept(history) == history

\* resetMetrics, line 311
HistoryAfterReset(history) == <<>>

\* resetMetrics(); lastCall tells whether there was a trade to forget
ResetMetrics ==
    /\ calls < MaxCalls
    /\ calls' = calls + 1
    /\ lastCall' = IF tradeHistory # <<>> THEN "reset" ELSE "reset_empty"
    /\ metrics' = InitialMetrics
    /\ tradeHistory' = HistoryAfterReset(tradeHistory)
    /\ emits' = [emits EXCEPT !.trade_executed_at_reset = emits.trade_executed]
    /\ UNCHANGED <<config, registry, isRunning, activeStrategies, startsPending,
                   loopTimers, perfTimers, cycles, cycleCount,
                   evaluationHistory, lastRequest, lastEvaluation, lastCheck,
                   registryOrder, registryActive>>

(***************************************************************************)
(* The trading loop: the timer callback of startTradingLoop.               *)
(* A timer callback is a macrotask: it cannot run while a start() is       *)
(* suspended at its await, whose continuation is a microtask.              *)
(***************************************************************************)
\* mutant: the callback does not test isRunning
LoopShouldRun_Always(running) == TRUE

\* the test of the callback: line 90 (negated)
LoopShouldRun(running) == running

\* mutant: the catch block of the callback clears the interval
TimersAfterCycleError_Cleared(timers) == IF timers > 0 THEN timers - 1 ELSE 0

\* the catch block of the callback (lines 97-99) only logs: the interval stays
TimersAfterCycleError(timers) == timers

\* a tick that finds the engine stopped: clearInterval(loopInterval)
TickClear ==
    /\ loopTimers > 0
    /\ startsPending = 0
    /\ ~LoopShouldRun(isRunning)
    /\ loopTimers' = loopTimers - 1
    /\ UNCHANGED <<config, registry, isRunning, activeStrategies, startsPending,
                   perfTimers, calls, lastCall, emits, metrics, tradeHistory,
                   cycles, cycleCount, evaluationHistory, lastRequest,
                   lastEvaluation, lastCheck,
                   registryOrder, registryActive>>

\* a tick that calls processTradingCycle, which runs up to its first await.
\* The records of the cycles that have ended are dropped.
StartCycle(limit) ==
    /\ loopTimers > 0
    /\ startsPending = 0
    /\ LoopShouldRun(isRunning)
    /\ cycleCount < limit
    /\ cycleCount' = cycleCount + 1
    /\ LET entered == [IdleCycle EXCEPT
                          !.runningAtEntry = isRunning,
                          !.afterFailure = \E c \in Cycles : cycles[c].pc = "failed"]
       IN  cycles' = [c \in Cycles |->
                         IF c = cycleCount + 1
                         THEN ContinueSourcing(config, activeStrategies, entered)
                         ELSE IF InFlight(cycles[c]) THEN cycles[c] ELSE IdleCycle]
    /\ UNCHANGED <<config, registry, isRunning, activeStrategies, startsPending,
                   loopTimers, perfTimers, calls, lastCall, emits, metrics,
                   tradeHistory, evaluationHistory, lastRequest,
                   lastEvaluation, lastCheck,
                   registryOrder, registryActive>>

TickCycle == StartCycle(MaxCycles)

\* executeStrategy(activeStrategies[si]) resolves with zero or one opportunity,
\* of one of the kinds given
PollReturnFrom(c, kinds) ==
    /\ cycles[c].pc = "sourcing"
    /\ \E opps \in {<<>>} \cup
                   { <<Opportunity(activeStrategies[cycles[c].si], c, k)>> :
                       k \in kinds } :
         LET returned == [cycles[c] EXCEPT
                             !.produced = @ \o [i \in DOMAIN opps |-> opps[i].id]]
         IN  cycles' = [cycles EXCEPT
                           ![c] = PollResolved(config, activeStrategies, returned, opps)]
    /\ UNCHANGED <<config, registry, isRunning, activeStrategies, startsPending,
                   loopTimers, perfTimers, calls, lastCall, emits, metrics,
                   tradeHistory, cycleCount, evaluationHistory, lastRequest,
                   lastEvaluation, lastCheck,
                   registryOrder, registryActive>>

PollReturn(c) == PollReturnFrom(c, SourceKinds)

\* executeStrategy(activeStrategies[si]) rejects
PollRaise(c) ==
    /\ cycles[c].pc = "sourcing"
    /\ cycles' = [cycles EXCEPT
                     ![c] = PollRaised(config, activeStrategies, cycles[c])]
    /\ UNCHANGED <<config, registry, isRunning, activeStrategies, startsPending,
                   loopTimers, perfTimers, calls, lastCall, emits, metrics,
                   tradeHistory, cycleCount, evaluationHistory, lastRequest,
                   lastEvaluation, lastCheck,
                   registryOrder, registryActive>>

\* aiDecisionEngine.evaluateOpportunity of the next opportunity resolves
EvalReturn(c) ==
    /\ cycles[c].pc = "evaluating"
    /\ \E env \in EngineEnvs :
         LET r == cycles[c]
             opp == r.opportunities[Len(r.evaluatedOpportunities) + 1]
             evaluation == EvaluateOpportunity(config, opp, env)
             pushed == [r EXCEPT !.evaluatedOpportunities =
                                     Append(@, Evaluated(opp, evaluation))]
         IN  /\ evaluationHistory' = HistorySet(evaluationHistory, opp.id, evaluation)
             /\ cycles' = [cycles EXCEPT ![c] = ContinueEvaluate(config, pushed)]
    /\ UNCHANGED <<config, registry, isRunning, activeStrategies, startsPending,
                   loopTimers, perfTimers, calls, lastCall, emits, metrics,
                   tradeHistory, cycleCount, lastRequest,
                   lastEvaluation, lastCheck,
                   registryOrder, registryActive>>

\* aiDecisionEngine.evaluateOpportunity rejects (an opportunity without a
\* timestamp makes assessRisk throw): processTradingCycle throws into the
\* callback, whose catch block logs the error
EvalRaise(c) ==
    /\ cycles[c].pc = "evaluating"
    /\ cycles' = [cycles EXCEPT ![c].pc = "failed"]
    /\ loopTimers' = TimersAfterCycleError(loopTimers)
    /\ UNCHANGED <<config, registry, isRunning, activeStrategies, startsPending,
                   perfTimers, calls, lastCall, emits, metrics, tradeHistory,
                   cycleCount, evaluationHistory, lastRequest,
                   lastEvaluation, lastCheck,
                   registryOrder, registryActive>>

\* executeOpportunity(queue[xi + 1]) up to its await: the risk check
ExecuteBegin(c) ==
    /\ cycles[c].pc = "executing"
    /\ LET r == cycles[c]
           opp == r.queue[r.xi + 1]
           called == [r EXCEPT !.attempts = Append(@, opp.id)]
       IN  cycles' = [cycles EXCEPT
                         ![c] = IF CheckRiskLimits(config, metrics, opp)
                                THEN [called EXCEPT !.pc = "trading"]
                                ELSE RiskRejected(called)]
    /\ UNCHANGED <<config, registry, isRunning, activeStrategies, startsPending,
                   loopTimers, perfTimers, calls, lastCall, emits, metrics,
                   tradeHistory, cycleCount, evaluationHistory, lastRequest,
                   lastEvaluation, lastCheck,
                   registryOrder, registryActive>>

\* mutant: the push of a result is lost while the trade of another cycle is
\* pending
TradeReturn_PushLostWhenOverlapping(c) ==
    /\ cycles[c].pc = "trading"
    /\ \E success \in BOOLEAN, executionTime \in ExecutionTimes :
         LET r == cycles[c]
             opp == r.queue[r.xi + 1]
             result == TradeResult(opp, success, executionTime)
             history == Append(tradeHistory, result)
             settled == [r EXCEPT !.xi = @ + 1,
                                  !.outcomes = Append(@,
                                      [id |-> opp.id,
                                       outcome |-> IF success THEN "success"
                                                   ELSE "failure"])]
         IN  /\ tradeHistory' = IF \E d \in Cycles \ {c} : cycles[d].pc = "trading"
                                THEN tradeHistory
                                ELSE history
             /\ metrics' = RecordTradeResult(metrics, history, result)
             /\ emits' = [emits EXCEPT !.trade_executed = @ + 1]
             /\ cycles' = [cycles EXCEPT ![c] = AfterExecute(settled)]
    /\ UNCHANGED <<config, registry, isRunning, activeStrategies, startsPending,
                   loopTimers, perfTimers, calls, lastCall, cycleCount,
                   evaluationHistory, lastRequest,
                   lastEvaluation, lastCheck,
                   registryOrder, registryActive>>

\* performTrade resolves: the result is recorded and announced
TradeReturn(c) ==
    /\ cycles[c].pc = "trading"
    /\ \E success \in BOOLEAN, executionTime \in ExecutionTimes :
         LET r == cycles[c]
             opp == r.queue[r.xi + 1]
             result == TradeResult(opp, success, executionTime)
             history == Append(tradeHistory, result)
             settled == [r EXCEPT !.xi = @ + 1,
                                  !.outcomes = Append(@,
                                      [id |-> opp.id,
                                       outcome |-> IF success THEN "success"
                                                   ELSE "failure"])]
         IN  /\ tradeHistory' = history
             /\ metrics' = RecordTradeResult(metrics, history, result)
             /\ emits' = [emits EXCEPT !.trade_executed = @ + 1]
             /\ cycles' = [cycles EXCEPT ![c] = AfterExecute(settled)]
    /\ UNCHANGED <<config, registry, isRunning, activeStrategies, startsPending,
                   loopTimers, perfTimers, calls, lastCall, cycleCount,
                   evaluationHistory, lastRequest,
                   lastEvaluation, lastCheck,
                   registryOrder, registryActive>>

\* performTrade rejects: the catch block of executeOpportunity logs the error
TradeRaise(c) ==
    /\ cycles[c].pc = "trading"
    /\ LET r == cycles[c]
           opp == r.queue[r.xi + 1]
           settled == [r EXCEPT !.outcomes =
                                   Append(@, [id |-> opp.id, outcome |-> "raise"])]
       IN  cycles' = [cycles EXCEPT ![c] = TradeRaised(settled)]
    /\ UNCHANGED <<config, registry, isRunning, activeStrategies, startsPending,
                   loopTimers, perfTimers, calls, lastCall, emits, metrics,
                   tradeHistory, cycleCount, evaluationHistory, lastRequest,
                   lastEvaluation, lastCheck,
                   registryOrder, registryActive>>

CycleStep ==
    \E c \in Cycles :
        \/ PollReturn(c)
        \/ PollRaise(c)
        \/ EvalReturn(c)
        \/ EvalRaise(c)
        \/ ExecuteBegin(c)
        \/ TradeReturn(c)
        \/ TradeRaise(c)

(***************************************************************************)
(* Spec: the engine with one enabled strategy; ticks may fire at any time. *)
(***************************************************************************)
NoRequest ==
    [opp |-> [id |-> <<"none", 0>>, confidence |-> Num(0), profitUSD |-> 0,
              gasEstimate |-> 0],
     env |-> [pred |-> PredFail, hour |-> 0, age |-> 0]]

NoEvaluation ==
    [confidence |-> Num(0), adjustedProfit |-> 0, risk |-> "LOW",
     recommendation |-> "SKIP", reasoning |-> <<>>]

NoCheck == [profitUSD |-> 0, totalLossUSD |-> 0, permit |-> TRUE, made |-> FALSE]

\* the state after construction, for a config and a registry content among those
\* given
InitWith(configs, registries) ==
    /\ config \in configs
    /\ registry \in registries
    /\ registryOrder = SelectSeq(StrategyIds, LAMBDA id : id \in DOMAIN registry)
    /\ registryActive = {id \in DOMAIN registry : registry[id].enabled}
    /\ isRunning = FALSE
    /\ activeStrategies = <<>>
    /\ startsPending = 0
    /\ loopTimers = 0
    /\ perfTimers = 0
    /\ calls = 0
    /\ lastCall = "none"
    /\ emits = [engine_started |-> 0, engine_stopped |-> 0, trade_executed |-> 0,
                performance_update |-> 0, trade_executed_at_reset |-> 0]
    /\ metrics = InitialMetrics
    /\ tradeHistory = <<>>
    /\ cycles = [c \in Cycles |-> IdleCycle]
    /\ cycleCount = 0
    /\ evaluationHistory = <<>>
    /\ lastRequest = NoRequest
    /\ lastEvaluation = NoEvaluation
    /\ lastCheck = NoCheck

\* the registry holds A and B, new strategies, those of `enabled` switched on
EngineRegistry(enabled) ==
    [id \in {"A", "B"} |->
        StrategyRecord(id \in enabled, PriorityOf(id), 0, Rate(0, 1), 0)]

InitEngine(enabled) == InitWith(EngineConfigs, {EngineRegistry(enabled)})

Init == InitEngine({"A"})

Next ==
    \/ StartCall
    \/ StartResume
    \/ StopCall
    \/ ResetMetrics
    \/ TickClear
    \/ TickCycle
    \/ CycleStep

Spec == Init /\ [][Next]_vars

(***************************************************************************)
(* SpecConfig: the engine of Spec, loaded with a config that may hold       *)
(* negative thresholds.                                                    *)
(***************************************************************************)
MalformedConfigs ==
    UNION { { [cfg EXCEPT !.confidenceThreshold = -1000],
              [cfg EXCEPT !.maxDailyLossETH = -1] } : cfg \in EngineConfigs }

InitConfig ==
    InitWith(EngineConfigs \cup MalformedConfigs, {EngineRegistry({"A"})})

SpecConfig == InitConfig /\ [][Next]_vars

(***************************************************************************)
(* SpecCycle: the engine with two enabled strategies, when the interval is *)
(* longer than a cycle (a tick finds no cycle in flight).                  *)
(***************************************************************************)
InitCycle == InitEngine({"A", "B"})

NoCycleInFlight == \A c \in Cycles : ~InFlight(cycles[c])

TickAfterCycle == NoCycleInFlight /\ StartCycle(MaxRuns)

NextCycle ==
    \/ StartCall
    \/ StartResume
    \/ StopCall
    \/ TickClear
    \/ TickAfterCycle
    \/ CycleStep

SpecCycle == InitCycle /\ [][NextCycle]_vars


(***************************************************************************)
(* SpecTimers: the engine of Spec without resetMetrics, the interval longer *)
(* than a cycle, with the ticks of the performance-monitoring intervals.   *)
(***************************************************************************)
\* a tick of a performance-monitoring interval: performance_update is emitted
\* if the engine is running
PerfTick ==
    /\ perfTimers > 0
    /\ startsPending = 0
    /\ emits.performance_update < MaxPerfUpdates
    /\ emits' = IF isRunning
                THEN [emits EXCEPT !.performance_update = @ + 1]
                ELSE emits
    /\ UNCHANGED <<config, registry, isRunning, activeStrategies, startsPending,
                   loopTimers, perfTimers, calls, lastCall, metrics, tradeHistory,
                   cycles, cycleCount, evaluationHistory, lastRequest,
                   lastEvaluation, lastCheck,
                   registryOrder, registryActive>>

NextTimers ==
    \/ StartCall
    \/ StartResume
    \/ StopCall
    \/ TickClear
    \/ TickAfterCycle
    \/ CycleStep
    \/ PerfTick

SpecTimers == Init /\ [][NextTimers]_vars


(***************************************************************************)
(* SpecFilter: the engine of SpecTimers without the performance ticks, its  *)
(* one strategy producing also a confident opportunity of small profit.    *)
(***************************************************************************)
\* a source may also produce an opportunity of confidence 0.95 and profit 8 USD
FilterKinds ==
    SourceKinds \cup { [confidence |-> Num(9500), profitUSD |-> 8, gasEstimate |-> 5] }

FilterStep ==
    \E c \in Cycles :
        \/ PollReturnFrom(c, FilterKinds)
        \/ PollRaise(c)
        \/ EvalReturn(c)
        \/ EvalRaise(c)
        \/ ExecuteBegin(c)
        \/ TradeReturn(c)
        \/ TradeRaise(c)

NextFilter ==
    \/ StartCall
    \/ StartResume
    \/ StopCall
    \/ TickClear
    \/ TickAfterCycle
    \/ FilterStep

SpecFilter == Init /\ [][NextFilter]_vars


(***************************************************************************)
(* SpecEval: direct calls of evaluateOpportunity (the manual evaluation    *)
(* surface) on arbitrary opportunities, the engine not started.            *)
(***************************************************************************)
EvalConfidences == {NaN, Num(-5000), Num(2000), Num(6000), Num(8000), Num(15000)}
EvalProfits == {0, 4, 40, 120}
EvalGas == {5, 60}
EvalPredictions == {PredFail, Pred(0), Pred(40), Pred(200)}
EvalHours == {8, 12}
EvalAges == {0, 30001}

EvaluateCall ==
    \E confidence \in EvalConfidences, profitUSD \in EvalProfits,
       gasEstimate \in EvalGas, pred \in EvalPredictions, hour \in EvalHours,
       age \in EvalAges :
        LET opp == [id |-> <<"manual", 0>>, confidence |-> confidence,
                    profitUSD |-> profitUSD, gasEstimate |-> gasEstimate]
            env == [pred |-> pred, hour |-> hour, age |-> age]
            evaluation == EvaluateOpportunity(config, opp, env)
        IN  /\ lastRequest' = [opp |-> opp, env |-> env]
            /\ lastEvaluation' = evaluation
            /\ evaluationHistory' = HistorySet(evaluationHistory, opp.id, evaluation)
            /\ UNCHANGED <<config, registry, isRunning, activeStrategies,
                           startsPending, loopTimers, perfTimers, calls, lastCall,
                           emits, metrics, tradeHistory, cycles, cycleCount,
                           lastCheck,
                   registryOrder, registryActive>>

InitEval == InitEngine({"A"})

NextEval == EvaluateCall

SpecEval == InitEval /\ [][NextEval]_vars

(***************************************************************************)
(* SpecMetrics: the metrics aggregate and the risk gate on their own.      *)
(* recordTradeResult is applied to arbitrary results, failures with a      *)
(* profit included, checkRiskLimits to arbitrary opportunities, with risk  *)
(* limiting on or off.                                                     *)
(***************************************************************************)
RiskConfigs ==
    { [cfg EXCEPT !.enableRiskLimits = b] : cfg \in EngineConfigs, b \in BOOLEAN }

ManualResult(success, profitUSD) ==
    [strategyId |-> "unknown", opportunity |-> <<"manual", 0>>, success |-> success,
     profitUSD |-> profitUSD, gasUsed |-> 0, executionTime |-> 2]

RecordResults ==
    { ManualResult(TRUE, 100), ManualResult(TRUE, 60), ManualResult(FALSE, 40),
      ManualResult(FALSE, -40), ManualResult(FALSE, 2000), ManualResult(FALSE, 0) }

CheckProfits == {1500, 2000, 2500}

\* recordTradeResult(result)
RecordCall ==
    \E result \in RecordResults :
        /\ Len(tradeHistory) < MaxRecords
        /\ tradeHistory' = Append(tradeHistory, result)
        /\ metrics' = RecordTradeResult(metrics, tradeHistory', result)
        /\ UNCHANGED <<config, registry, isRunning, activeStrategies, startsPending,
                       loopTimers, perfTimers, calls, lastCall, emits, cycles,
                       cycleCount, evaluationHistory, lastRequest, lastEvaluation,
                       lastCheck,
                   registryOrder, registryActive>>

\* checkRiskLimits(opportunity)
CheckCall ==
    \E profitUSD \in CheckProfits :
        LET opp == [id |-> <<"manual", 0>>, confidence |-> Num(10000),
                    profitUSD |-> profitUSD, gasEstimate |-> 5]
        IN  /\ lastCheck' = [profitUSD |-> profitUSD,
                             totalLossUSD |-> metrics.totalLossUSD,
                             permit |-> CheckRiskLimits(config, metrics, opp),
                             made |-> TRUE]
            /\ UNCHANGED <<config, registry, isRunning, activeStrategies,
                           startsPending, loopTimers, perfTimers, calls, lastCall,
                           emits, metrics, tradeHistory, cycles, cycleCount,
                           evaluationHistory, lastRequest, lastEvaluation,
                           registryOrder, registryActive>>

InitMetrics == InitWith(RiskConfigs, {EngineRegistry({"A"})})

NextMetrics ==
    \/ RecordCall
    \/ CheckCall
    \/ ResetMetrics

SpecMetrics == InitMetrics /\ [][NextMetrics]_vars

(***************************************************************************)
(* SpecRegistry: updateStrategyPerformance applied to strategies as they   *)
(* may be registered: new ones, and ones registered with trades behind     *)
(* them.                                                                   *)
(***************************************************************************)
RegisteredStrategies(id) ==
    { StrategyRecord(TRUE, PriorityOf(id), 0, Rate(0, 1), 0),
      StrategyRecord(TRUE, PriorityOf(id), 0, Rate(75, 1), 0),
      StrategyRecord(TRUE, PriorityOf(id), 2, Rate(50, 1), 30) }

UpdateIds == {"A", "B", "Z"}
UpdateProfits == {10, -10}

\* the updates made so far on registered strategies
UpdatesMade(reg) ==
    LET RECURSIVE Sum(_)
        Sum(ids) == IF ids = {} THEN 0
                    ELSE LET id == CHOOSE x \in ids : TRUE
                         IN  reg[id].reports + Sum(ids \ {id})
    IN  Sum(DOMAIN reg)

\* updateStrategyPerformance(id, success, profit)
UpdateCall ==
    \E id \in UpdateIds, success \in BOOLEAN, profit \in UpdateProfits :
        /\ UpdatesMade(registry) < MaxUpdates
        /\ registry' = UpdateStrategyPerformance(registry, id, success, profit)
        /\ UNCHANGED <<config, isRunning, activeStrategies, startsPending,
                       loopTimers, perfTimers, calls, lastCall, emits, metrics,
                       tradeHistory, cycles, cycleCount, evaluationHistory,
                       lastRequest, lastEvaluation, lastCheck,
                   registryOrder, registryActive>>

\* the strategies that registerStrategy is called with after construction
RegisterIds == {"A", "B", "C"}
NewStrategies(id) ==
    { StrategyRecord(e, PriorityOf(id), 0, Rate(0, 1), 0) : e \in BOOLEAN }

\* registerStrategy(strategy)
RegisterCall ==
    \E id \in RegisterIds :
        \E strategy \in NewStrategies(id) :
            /\ registry' = MapSet(registry, id, strategy)
            /\ registryOrder' = KeysAfterSet(registryOrder, id)
            /\ registryActive' = ActiveAfterRegister(registryActive, id, strategy)
            /\ UNCHANGED <<config, isRunning, activeStrategies, startsPending,
                           loopTimers, perfTimers, calls, lastCall, emits, metrics,
                           tradeHistory, cycles, cycleCount, evaluationHistory,
                           lastRequest, lastEvaluation, lastCheck>>

SetEnabledIds == {"A", "B", "C", "Z"}

\* activateStrategy(id)
ActivateCall ==
    \E id \in SetEnabledIds :
        /\ registry' = ActivateStrategy(registry, id)
        /\ registryActive' = ActiveAfterActivate(registry, registryActive, id)
        /\ UNCHANGED <<config, isRunning, activeStrategies, startsPending,
                       loopTimers, perfTimers, calls, lastCall, emits, metrics,
                       tradeHistory, cycles, cycleCount, evaluationHistory,
                       lastRequest, lastEvaluation, lastCheck, registryOrder>>

\* deactivateStrategy(id)
DeactivateCall ==
    \E id \in SetEnabledIds :
        /\ registry' = DeactivateStrategy(registry, id)
        /\ registryActive' = ActiveAfterDeactivate(registry, registryActive, id)
        /\ UNCHANGED <<config, isRunning, activeStrategies, startsPending,
                       loopTimers, perfTimers, calls, lastCall, emits, metrics,
                       tradeHistory, cycles, cycleCount, evaluationHistory,
                       lastRequest, lastEvaluation, lastCheck, registryOrder>>

InitRegistry ==
    InitWith(EngineConfigs,
             { reg \in [{"A", "B"} -> UNION {RegisteredStrategies(id) : id \in {"A", "B"}}] :
                   \A id \in {"A", "B"} : reg[id] \in RegisteredStrategies(id) })

NextRegistry ==
    \/ UpdateCall
    \/ RegisterCall
    \/ ActivateCall
    \/ DeactivateCall

SpecRegistry == InitRegistry /\ [][NextRegistry]_vars


(***************************************************************************)
(* SpecStore: the engine of SpecCycle while strategies of the registry are *)
(* activated and deactivated.                                              *)
(***************************************************************************)
NextStore ==
    \/ StartCall
    \/ StartResume
    \/ StopCall
    \/ TickClear
    \/ TickAfterCycle
    \/ CycleStep
    \/ ActivateCall
    \/ DeactivateCall

SpecStore == InitCycle /\ [][NextStore]_vars


(***************************************************************************)
(* Properties.                                                             *)
(***************************************************************************)
CyclesInFlight == {c \in Cycles : InFlight(cycles[c])}

\* the ids of a sequence of opportunities
Ids(opps) == [i \in DOMAIN opps |-> opps[i].id]

\* the evaluated copy of the opportunity id in cycle record r
EvaluatedCopy(r, id) ==
    r.evaluatedOpportunities[
        CHOOSE i \in DOMAIN r.evaluatedOpportunities :
            r.evaluatedOpportunities[i].id = id]

\* the position of the opportunity id in the order of sourcing
SourceIndex(r, id) ==
    CHOOSE i \in DOMAIN r.opportunities : r.opportunities[i].id = id

\* the entries of the trade history that resolve the opportunity id
TradesOf(id) == {i \in DOMAIN tradeHistory : tradeHistory[i].opportunity = id}

\* C1: at most one trading cycle is in flight at any time: a tick that fires
\* while an earlier cycle is suspended at an await starts no new cycle.
C1_AtMostOneCycleInFlight == Cardinality(CyclesInFlight) <= 1

\* C2: start() and stop() are idempotent.  Effective starts and effective stops
\* alternate, so a start() on a running engine emits no engine_started and
\* creates no timer, and a stop() on a stopped engine emits no engine_stopped;
\* with no stop(), two start() calls leave one emission and one loop timer.
C2_StartStopIdempotent ==
    /\ emits.engine_started + startsPending <= emits.engine_stopped + 1
    /\ loopTimers + startsPending <= emits.engine_stopped + 1
    /\ emits.engine_stopped <= emits.engine_started + startsPending
    /\ (emits.engine_stopped = 0 /\ lastCall = "start_noop" /\ startsPending = 0)
          => (emits.engine_started = 1 /\ loopTimers = 1 /\ isRunning)
    /\ (lastCall = "stop_noop" /\ startsPending = 0) => ~isRunning

C2_Witness ==
    /\ calls = 2
    /\ lastCall = "start_noop"
    /\ startsPending = 0
    /\ emits.engine_started = 1
    /\ loopTimers = 1

\* C3: no cycle begins while the engine is stopped: findOpportunities is never
\* entered in a state where isRunning is false.
C3_NoSourcingWhileStopped ==
    \A c \in Cycles : cycles[c].pc # "idle" => cycles[c].runningAtEntry

\* a tick has fired after stop() (it cleared the interval) and began no cycle
C3_Witness ==
    /\ ~isRunning
    /\ emits.engine_started = 1
    /\ emits.engine_stopped = 1
    /\ startsPending = 0
    /\ loopTimers = 0
    /\ cycleCount = 0

\* C4: a cycle in flight when stop() takes effect drains: once it has returned,
\* every opportunity that passed the confidence filter has been handed to
\* executeOpportunity and every performed trade is in the trade history.
C4_StoppedCycleDrains ==
    \A c \in Cycles :
        LET r == cycles[c]
        IN  (r.stopSeen /\ r.pc = "done") =>
              /\ {r.attempts[i] : i \in DOMAIN r.attempts} =
                    {r.evaluatedOpportunities[i].id :
                        i \in {j \in DOMAIN r.evaluatedOpportunities :
                                  FGe(r.evaluatedOpportunities[j].confidence,
                                      config.confidenceThreshold)}}
              /\ \A k \in DOMAIN r.outcomes :
                    r.outcomes[k].outcome # "raise" =>
                        /\ Cardinality(TradesOf(r.outcomes[k].id)) = 1
                        /\ \A i \in TradesOf(r.outcomes[k].id) :
                              tradeHistory[i].success
                                  = (r.outcomes[k].outcome = "success")
              /\ metrics.totalTrades = Len(tradeHistory)

C4_Witness ==
    \E c \in Cycles :
        /\ cycles[c].stopSeen
        /\ cycles[c].pc = "done"
        /\ ~isRunning
        /\ Len(cycles[c].attempts) = 2
        /\ Len(cycles[c].outcomes) = 2
        /\ Len(tradeHistory) = 2

\* C5: a failed cycle never halts later cycles: after any failure the engine is
\* running unless stop() was called, its timer is armed, and a tick starts the
\* next cycle.
C5_FailureNeverHalts ==
    \A c \in Cycles :
        cycles[c].pc = "failed" =>
            /\ emits.engine_stopped = 0 => (isRunning /\ loopTimers > 0)
            /\ (isRunning /\ startsPending = 0) => loopTimers > 0
            /\ (isRunning /\ startsPending = 0 /\ cycleCount < MaxCycles)
                  => ENABLED TickCycle

\* a cycle that began after a failed cycle has failed too; the engine runs
C5_Witness ==
    \E c \in Cycles :
        /\ cycles[c].pc = "failed"
        /\ cycles[c].afterFailure
        /\ isRunning
        /\ loopTimers > 0

\* C6: when the source of one active strategy raises, every active strategy
\* is still polled, the opportunities of the others are all carried into
\* evaluation, the raising strategy contributes none, and the engine is still
\* running after the cycle.
C6_SourceFailureContained ==
    \A c \in Cycles :
        LET r == cycles[c]
        IN  /\ r.pc \notin {"idle", "sourcing"} =>
                  /\ r.polled = activeStrategies
                  /\ Ids(r.opportunities) = r.produced
                  /\ \A i \in DOMAIN r.opportunities :
                        r.opportunities[i].id[1] \notin r.raised
            /\ r.pc \in {"executing", "trading", "done"} =>
                  Ids(r.evaluatedOpportunities) = r.produced
            /\ (r.raised # {} /\ emits.engine_stopped = 0 /\ r.pc # "idle")
                  => isRunning

C6_Witness ==
    \E c \in Cycles :
        /\ cycles[c].pc = "done"
        /\ cycles[c].raised = {"A"}
        /\ Ids(cycles[c].opportunities) = << <<"B", c>> >>
        /\ Ids(cycles[c].evaluatedOpportunities) = << <<"B", c>> >>
        /\ isRunning

\* C7: within a cycle, opportunities are submitted to execution in
\* non-increasing order of evaluated confidence, equal confidences in the order
\* of sourcing; the filters remove opportunities and never reorder them.
InSubmissionOrder(r, ids) ==
    \A i, j \in DOMAIN ids :
        i < j =>
            LET a == EvaluatedCopy(r, ids[i])
                b == EvaluatedCopy(r, ids[j])
            IN  \/ a.confidence.v > b.confidence.v
                \/ /\ a.confidence.v = b.confidence.v
                   /\ SourceIndex(r, ids[i]) < SourceIndex(r, ids[j])

C7_SubmittedByConfidence ==
    \A c \in Cycles :
        /\ InSubmissionOrder(cycles[c], cycles[c].attempts)
        /\ InSubmissionOrder(cycles[c],
                             [k \in DOMAIN cycles[c].outcomes |->
                                 cycles[c].outcomes[k].id])

\* the opportunity sourced second was submitted first
C7_Witness ==
    \E c \in Cycles :
        /\ cycles[c].attempts = << <<"B", c>>, <<"A", c>> >>
        /\ Ids(cycles[c].opportunities) = << <<"A", c>>, <<"B", c>> >>

\* C8: each surviving opportunity is attempted independently: when the cycle
\* returns, every opportunity of the filtered list has been handed to
\* executeOpportunity, whatever became of the ones before it.
C8_ExecutionsIndependent ==
    \A c \in Cycles :
        LET r == cycles[c]
        IN  /\ r.pc = "done" => r.attempts = Ids(r.queue)
            /\ r.pc \in {"executing", "trading"} =>
                  /\ r.xi < Len(r.queue)
                  /\ Len(r.attempts) = r.xi + (IF r.pc = "trading" THEN 1 ELSE 0)

\* the first execution threw and the second was attempted
C8_Witness ==
    \E c \in Cycles :
        /\ Len(cycles[c].attempts) = 2
        /\ Len(cycles[c].outcomes) >= 1
        /\ cycles[c].outcomes[1].outcome = "raise"

\* C9: whenever the execution backend returns failure or raises for an
\* opportunity that passed the risk check, exactly one TradeResult with
\* success = false and profit 0 is recorded for it.
C9_FailureRecordedOnce ==
    \A c \in Cycles :
        \A k \in DOMAIN cycles[c].outcomes :
            cycles[c].outcomes[k].outcome # "success" =>
                /\ Cardinality(TradesOf(cycles[c].outcomes[k].id)) = 1
                /\ \A i \in TradesOf(cycles[c].outcomes[k].id) :
                      /\ ~tradeHistory[i].success
                      /\ tradeHistory[i].profitUSD = 0

\* C10: whatever the input confidence and the prediction, the confidence of the
\* returned evaluation and of its copy in the evaluation history is in [0, 1].
InUnitInterval(c) == (~c.nan) /\ c.v >= 0 /\ c.v <= 10000

C10_ConfidenceInUnitInterval ==
    /\ InUnitInterval(lastEvaluation.confidence)
    /\ \A id \in DOMAIN evaluationHistory :
          InUnitInterval(evaluationHistory[id].confidence)

\* C11: evaluating the same opportunity twice, the predictor answering the same
\* both times, yields the same recommendation: neither the clock nor the
\* evaluation history influences it.
C11_SameOpportunitySameRecommendation ==
    [][(/\ lastRequest # NoRequest
        /\ lastRequest'.opp = lastRequest.opp
        /\ lastRequest'.env.pred = lastRequest.env.pred
        /\ lastRequest'.env.age >= lastRequest.env.age)
          => lastEvaluation'.recommendation = lastEvaluation.recommendation]_vars

\* C12: the recommendation of an evaluation whose clamped confidence c is a
\* number is EXECUTE if c >= confidenceThreshold and p > minProfitThreshold and
\* not (risk HIGH and c < 0.9); WAIT if c >= confidenceThreshold and
\* p > minProfitThreshold and risk HIGH and c < 0.9; otherwise SKIP if
\* p < minProfitThreshold / 2 or c < 0.3; otherwise WAIT.
RecommendationTable(c, r, p) ==
    LET good == c >= config.confidenceThreshold /\ p > config.minProfitThresholdUSD
        held == r = "HIGH" /\ c < 9000
    IN  CASE good /\ ~held -> "EXECUTE"
          [] good /\ held -> "WAIT"
          [] ~good /\ (2 * p < config.minProfitThresholdUSD \/ c < 3000) -> "SKIP"
          [] OTHER -> "WAIT"

C12_RecommendationTable ==
    (lastRequest # NoRequest /\ ~lastEvaluation.confidence.nan) =>
        /\ lastEvaluation.recommendation =
              RecommendationTable(lastEvaluation.confidence.v, lastEvaluation.risk,
                                  lastEvaluation.adjustedProfit)
        /\ (lastEvaluation.risk = "HIGH" /\ lastEvaluation.confidence.v < 9000)
              => lastEvaluation.recommendation # "EXECUTE"

\* a HIGH-risk evaluation above both thresholds, confidence below 0.9, is held
C12_Witness ==
    /\ lastRequest # NoRequest
    /\ lastEvaluation.risk = "HIGH"
    /\ ~lastEvaluation.confidence.nan
    /\ lastEvaluation.confidence.v >= config.confidenceThreshold
    /\ lastEvaluation.confidence.v < 9000
    /\ lastEvaluation.adjustedProfit > config.minProfitThresholdUSD
    /\ lastEvaluation.recommendation = "WAIT"

\* C13: with risk limiting disabled, checkRiskLimits permits every opportunity,
\* whatever its profitUSD and whatever the cumulative loss.
C13_DisabledPermitsAll ==
    (lastCheck.made /\ ~config.enableRiskLimits) => lastCheck.permit

\* permitted with limiting off: above the position limit, loss above its limit
C13_Witness ==
    /\ lastCheck.made
    /\ ~config.enableRiskLimits
    /\ lastCheck.profitUSD = 2500
    /\ lastCheck.totalLossUSD > config.maxDailyLossETH * 2000
    /\ lastCheck.permit

\* C14: with risk limiting enabled, an opportunity whose profitUSD exceeds
\* maxPositionSizeETH * 2000 is rejected, and one that does not exceed it is
\* accepted unless the loss limit refuses it; with maxPositionSizeETH = 1,
\* 2500 is rejected and 1500 is accepted.
C14_PositionLimit ==
    (lastCheck.made /\ config.enableRiskLimits) =>
        /\ lastCheck.profitUSD > config.maxPositionSizeETH * 2000 => ~lastCheck.permit
        /\ (/\ lastCheck.profitUSD <= config.maxPositionSizeETH * 2000
            /\ lastCheck.totalLossUSD <= config.maxDailyLossETH * 2000)
              => lastCheck.permit
        /\ (config.maxPositionSizeETH = 1 /\ lastCheck.totalLossUSD = 0) =>
              /\ lastCheck.profitUSD = 2500 => ~lastCheck.permit
              /\ lastCheck.profitUSD = 1500 => lastCheck.permit

\* 2500 is rejected for its size alone
C14_Witness ==
    /\ lastCheck.made
    /\ config.enableRiskLimits
    /\ config.maxPositionSizeETH = 1
    /\ lastCheck.profitUSD = 2500
    /\ lastCheck.totalLossUSD = 0
    /\ ~lastCheck.permit

\* C15: with risk limiting enabled, every opportunity is rejected once
\* totalLossUSD exceeds maxDailyLossETH * 2000, a loss equal to the limit still
\* permits, and overall permit = disabled or (profitUSD <= position limit and
\* totalLossUSD <= loss limit).
C15_LossLimit ==
    lastCheck.made =>
        /\ (config.enableRiskLimits
              /\ lastCheck.totalLossUSD > config.maxDailyLossETH * 2000)
              => ~lastCheck.permit
        /\ lastCheck.permit =
              (\/ ~config.enableRiskLimits
               \/ /\ lastCheck.profitUSD <= config.maxPositionSizeETH * 2000
                  /\ lastCheck.totalLossUSD <= config.maxDailyLossETH * 2000)

\* an opportunity within the position limit is rejected for the loss behind
C15_Witness ==
    /\ lastCheck.made
    /\ config.enableRiskLimits
    /\ lastCheck.profitUSD = 1500
    /\ lastCheck.totalLossUSD > config.maxDailyLossETH * 2000
    /\ ~lastCheck.permit

\* the successes and the failures of a history, and sums over a history
Successes(history) == SelectSeq(history, LAMBDA t : t.success)
Failures(history) == SelectSeq(history, LAMBDA t : ~t.success)

RECURSIVE SumProfit(_)
SumProfit(history) ==
    IF history = <<>> THEN 0 ELSE history[1].profitUSD + SumProfit(Tail(history))

RECURSIVE SumMagnitude(_)
SumMagnitude(history) ==
    IF history = <<>> THEN 0
    ELSE (IF history[1].profitUSD < 0 THEN -history[1].profitUSD
          ELSE history[1].profitUSD) + SumMagnitude(Tail(history))

\* C16: after recording any sequence of results from the zero state,
\* totalTrades is the number of results, successfulTrades the number of
\* successes, totalProfitUSD the sum of profit over successes, totalLossUSD the
\* sum of |profit| over failures, netProfitUSD their difference and
\* successRate = successfulTrades / totalTrades * 100 (here in units of 0.01,
\* rounded down); [success(100), fail(40), success(60)] gives 3, 2, 160, 40,
\* 120, 66.67 and profitFactor 4.0.
C16_MetricsAreTotals ==
    /\ metrics.totalTrades = Len(tradeHistory)
    /\ metrics.successfulTrades = Len(Successes(tradeHistory))
    /\ metrics.failedTrades = Len(Failures(tradeHistory))
    /\ metrics.totalProfitUSD = SumProfit(Successes(tradeHistory))
    /\ metrics.totalLossUSD = SumMagnitude(Failures(tradeHistory))
    /\ metrics.netProfitUSD = metrics.totalProfitUSD - metrics.totalLossUSD
    /\ Len(tradeHistory) > 0 =>
          metrics.successRate
            = (Len(Successes(tradeHistory)) * 10000) \div Len(tradeHistory)
    /\ tradeHistory = <<ManualResult(TRUE, 100), ManualResult(FALSE, 40),
                        ManualResult(TRUE, 60)>> =>
          /\ metrics.totalTrades = 3
          /\ metrics.successfulTrades = 2
          /\ metrics.totalProfitUSD = 160
          /\ metrics.totalLossUSD = 40
          /\ metrics.netProfitUSD = 120
          /\ metrics.successRate = 6666
          /\ metrics.profitFactor = 400

C16_Witness ==
    /\ tradeHistory = <<ManualResult(TRUE, 100), ManualResult(FALSE, 40),
                        ManualResult(TRUE, 60)>>
    /\ metrics.totalTrades = 3
    /\ metrics.profitFactor = 400

\* C17: a record that leaves totalLossUSD at zero leaves profitFactor as it
\* was; a record after which totalLossUSD > 0 sets profitFactor to
\* totalProfitUSD / totalLossUSD (in units of 0.01, rounded down).
C17_ProfitFactorFrame ==
    [][Len(tradeHistory') = Len(tradeHistory) + 1 =>
          /\ metrics'.totalLossUSD = 0 => metrics'.profitFactor = metrics.profitFactor
          /\ metrics'.totalLossUSD > 0 =>
                metrics'.profitFactor
                  = (metrics'.totalProfitUSD * 100) \div metrics'.totalLossUSD]_vars

\* results with a profit are recorded, none has lost: profitFactor is still 0
C17_Witness ==
    /\ metrics.totalTrades = 2
    /\ metrics.failedTrades = 1
    /\ metrics.totalProfitUSD > 0
    /\ metrics.totalLossUSD = 0
    /\ metrics.profitFactor = 0

\* the metrics that recording a history from the zero state gives
RECURSIVE Replay(_, _)
Replay(history, n) ==
    IF n = 0 THEN InitialMetrics
    ELSE RecordTradeResult(Replay(history, n - 1), SubSeq(history, 1, n), history[n])

\* C18: resetMetrics sets every counter and derived field to zero and empties
\* the trade history: after a reset the metrics are those of the results
\* recorded since, and zero while there is none.
C18_ResetForgets ==
    lastCall \in {"reset", "reset_empty"} =>
        /\ metrics = Replay(tradeHistory, Len(tradeHistory))
        /\ metrics.totalTrades = Len(tradeHistory)
        /\ tradeHistory = <<>> =>
              /\ metrics.totalTrades = 0
              /\ metrics.successfulTrades = 0
              /\ metrics.failedTrades = 0
              /\ metrics.totalProfitUSD = 0
              /\ metrics.totalLossUSD = 0
              /\ metrics.netProfitUSD = 0
              /\ metrics.averageTradeTime = 0
              /\ metrics.successRate = 0
              /\ metrics.profitFactor = 0

\* a reset forgot at least one trade, and one result was recorded after it
C18_Witness ==
    /\ lastCall = "reset"
    /\ Len(tradeHistory) = 1
    /\ metrics.totalTrades = 1

\* C19: a step that is not a resetMetrics() call never decreases totalTrades,
\* successfulTrades, failedTrades, totalProfitUSD, totalLossUSD or the length
\* of the trade history.
C19_NoImplicitReset ==
    [][\/ calls' = calls + 1 /\ lastCall' \in {"reset", "reset_empty"}
       \/ /\ metrics'.totalTrades >= metrics.totalTrades
          /\ metrics'.successfulTrades >= metrics.successfulTrades
          /\ metrics'.failedTrades >= metrics.failedTrades
          /\ metrics'.totalProfitUSD >= metrics.totalProfitUSD
          /\ metrics'.totalLossUSD >= metrics.totalLossUSD
          /\ Len(tradeHistory') >= Len(tradeHistory)]_vars

\* the engine was started, stopped and started again with no reset, a cycle
\* failed, and the trade recorded is still counted
C19_Witness ==
    /\ calls = 3
    /\ emits.engine_started = 2
    /\ emits.engine_stopped = 1
    /\ \E c \in Cycles : cycles[c].pc = "failed"
    /\ metrics.totalTrades = 1
    /\ Len(tradeHistory) = 1

\* C20: updateStrategyPerformance on a registered strategy adds one to its
\* trade count and makes successRate the incremental average: after k reports
\* of which s succeeded, successRate * totalTrades = initial rate * initial
\* trades + 100 * s; a strategy that started at 0 trades has successRate
\* 100 * s / totalTrades: 100 after one success, 50 after a failure more.
C20_RunningSuccessRate ==
    \A id \in DOMAIN registry :
        LET st == registry[id]
        IN  /\ st.totalTrades = st.initialTrades + st.reports
            /\ st.successRate.den > 0
            /\ st.reports > 0 =>
                  st.successRate.num * st.totalTrades * st.initialRate.den
                    = (st.initialRate.num * st.initialTrades
                         + 100 * st.successes * st.initialRate.den)
                      * st.successRate.den
            /\ (st.initialTrades = 0 /\ st.reports > 0) =>
                  st.successRate.num * st.totalTrades
                    = 100 * st.successes * st.successRate.den
            /\ (st.initialTrades = 0 /\ st.reports = 1 /\ st.successes = 1) =>
                  st.successRate.num = 100 * st.successRate.den
            /\ (st.initialTrades = 0 /\ st.reports = 2 /\ st.successes = 1) =>
                  st.successRate.num = 50 * st.successRate.den

\* a strategy that started at 0 trades has one success and one failure
C20_Witness ==
    /\ registry["A"].initialTrades = 0
    /\ registry["A"].totalTrades = 2
    /\ registry["A"].successes = 1
    /\ registry["A"].successRate.num = 50 * registry["A"].successRate.den

\* C21: after any sequence of registerStrategy, activateStrategy and
\* deactivateStrategy calls, the registry's active set is exactly the set of
\* ids whose stored strategy is enabled, and getAllEnabledStrategies returns
\* exactly those strategies.
C21_ActiveSetIsEnabledSet ==
    /\ registryActive = {id \in DOMAIN registry : registry[id].enabled}
    /\ LET listed == GetAllEnabledStrategies(registryOrder, registry)
       IN  {listed[i] : i \in DOMAIN listed}
             = {id \in DOMAIN registry : registry[id].enabled}

\* C22: getTopPerformingStrategies returns the strategies by total profit
\* descending, two strategies of equal total profit in ascending order of
\* priority, whatever the order of registration.
C22_TopByProfitThenPriority ==
    LET top == GetTopPerformingStrategies(registryOrder, registry, DefaultLimit)
    IN  \A i, j \in DOMAIN top :
            i < j =>
                \/ registry[top[i]].totalProfitUSD > registry[top[j]].totalProfitUSD
                \/ /\ registry[top[i]].totalProfitUSD = registry[top[j]].totalProfitUSD
                   /\ registry[top[i]].priority <= registry[top[j]].priority

\* C23: every TradeResult recorded for an opportunity produced by strategy S
\* updates the stats of S in the registry, so the updates reported to S are as
\* many as the trades recorded for its opportunities; and the strategyId of a
\* TradeResult is a registered id or "unknown".
C23_TradesUpdateStrategyStats ==
    /\ \A id \in DOMAIN registry :
          registry[id].reports
            = Cardinality({i \in DOMAIN tradeHistory :
                              tradeHistory[i].opportunity[1] = id})
    /\ \A i \in DOMAIN tradeHistory :
          tradeHistory[i].strategyId \in DOMAIN registry \cup {"unknown"}

\* C24: when the predictor fails, the evaluation is that of the opportunity's
\* own confidence and profitUSD carried through the later steps, and its
\* reasoning has an entry, besides those of the three later steps, that notes
\* the fallback.
C24_PredictorFallbackNoted ==
    (lastRequest # NoRequest /\ ~lastRequest.env.pred.ok) =>
        /\ lastEvaluation.confidence
              = ClampConfidence(FMul(lastRequest.opp.confidence,
                                     AnalyzeMarketConditions(lastRequest.opp,
                                                             lastRequest.env.hour)))
        /\ lastEvaluation.adjustedProfit
              = lastRequest.opp.profitUSD - OptimizeGasCosts(lastRequest.opp)
        /\ \E i \in DOMAIN lastEvaluation.reasoning :
              lastEvaluation.reasoning[i]
                \notin {"Market condition score", "Risk level", "Gas optimization"}

\* C25: with a malformed config (a negative threshold or limit) start() refuses
\* to start: isRunning stays false, no loop is created, nothing is emitted.
ConfigMalformed ==
    \/ config.confidenceThreshold < 0
    \/ config.minProfitThresholdUSD < 0
    \/ config.maxPositionSizeETH < 0
    \/ config.maxDailyLossETH < 0

C25_MalformedConfigRefused ==
    ConfigMalformed =>
        /\ ~isRunning
        /\ startsPending = 0
        /\ loopTimers = 0
        /\ emits.engine_started = 0

\* the cycles whose performTrade returns in the step
Returning(before, after) ==
    {c \in Cycles :
        /\ Len(after[c].outcomes) = Len(before[c].outcomes) + 1
        /\ after[c].outcomes[Len(after[c].outcomes)].outcome # "raise"}

\* C26: each execution that passed the risk check and completed produces
\* exactly one TradeResult, appended to the trade history, folded into the
\* metrics and announced by one trade_executed emission in the same step; so
\* trade-history length = totalTrades = successfulTrades + failedTrades =
\* trade_executed emissions since the last reset.
C26_OneResultPerExecution ==
    /\ [](/\ Len(tradeHistory) = metrics.totalTrades
          /\ metrics.totalTrades = metrics.successfulTrades + metrics.failedTrades
          /\ Len(tradeHistory)
                = emits.trade_executed - emits.trade_executed_at_reset)
    /\ [][/\ \A c \in Returning(cycles, cycles') :
               LET last == cycles'[c].outcomes[Len(cycles'[c].outcomes)]
               IN  /\ Len(tradeHistory') = Len(tradeHistory) + 1
                   /\ SubSeq(tradeHistory', 1, Len(tradeHistory)) = tradeHistory
                   /\ tradeHistory'[Len(tradeHistory')].opportunity = last.id
                   /\ tradeHistory'[Len(tradeHistory')].success
                         = (last.outcome = "success")
                   /\ metrics'.totalTrades = metrics.totalTrades + 1
                   /\ emits'.trade_executed = emits.trade_executed + 1
          /\ Len(tradeHistory') > Len(tradeHistory)
                => Cardinality(Returning(cycles, cycles')) = 1
          /\ emits'.trade_executed # emits.trade_executed
                => Cardinality(Returning(cycles, cycles')) = 1]_vars

\* a reset forgot a trade and a trade was executed after it
C26_Witness ==
    /\ emits.trade_executed_at_reset = 1
    /\ emits.trade_executed = 2
    /\ Len(tradeHistory) = 1
    /\ ~tradeHistory[1].success

\* the running confidence of the last request after the predictor adjustment
\* and the market multiplier, before clamping (for a confidence that is a number)
RunningConfidence ==
    ((lastRequest.opp.confidence.v
        + PredictionDelta(lastRequest.opp, lastRequest.env.pred))
       * AnalyzeMarketConditions(lastRequest.opp, lastRequest.env.hour)) \div 10000

\* C27: the risk tier is the bucket of the additive score: +2 if profitUSD >
\* 100 else +1 if > 50; +2 if gasEstimate > 0.05 else +1 if > 0.02; +2 if the
\* running confidence < 0.5 else +1 if < 0.7; +2 if age > 30 s else +1 if
\* > 10 s; score >= 4 is HIGH, >= 2 MEDIUM, otherwise LOW.
C27_RiskTierIsScoreBucket ==
    (lastRequest # NoRequest /\ ~lastRequest.opp.confidence.nan) =>
        LET opp == lastRequest.opp
            score ==
                  (IF opp.profitUSD > 100 THEN 2 ELSE IF opp.profitUSD > 50 THEN 1 ELSE 0)
                + (IF opp.gasEstimate > 50 THEN 2
                   ELSE IF opp.gasEstimate > 20 THEN 1 ELSE 0)
                + (IF RunningConfidence < 5000 THEN 2
                   ELSE IF RunningConfidence < 7000 THEN 1 ELSE 0)
                + (IF lastRequest.env.age > 30000 THEN 2
                   ELSE IF lastRequest.env.age > 10000 THEN 1 ELSE 0)
        IN  lastEvaluation.risk
              = (IF score >= 4 THEN "HIGH" ELSE IF score >= 2 THEN "MEDIUM" ELSE "LOW")

\* an old opportunity, nothing else against it, is MEDIUM
C27_Witness ==
    /\ lastRequest # NoRequest
    /\ lastRequest.env.age > 30000
    /\ lastRequest.opp.profitUSD = 40
    /\ lastRequest.opp.gasEstimate = 5
    /\ ~lastRequest.opp.confidence.nan
    /\ RunningConfidence >= 7000
    /\ lastEvaluation.risk = "MEDIUM"

\* the adjustment the claim gives for ratio = predicted / profitUSD (the
\* quotient by a zero profitUSD is infinite for a positive prediction and not
\* a number for a zero one)
RatioDelta(predicted, profitUSD) ==
    IF profitUSD > 0
    THEN IF 10 * predicted > 12 * profitUSD THEN 1000
         ELSE IF 10 * predicted < 8 * profitUSD THEN -1000 ELSE 0
    ELSE IF predicted > 0 THEN 1000 ELSE 0

\* C28: with a prediction, the running confidence is raised by exactly 0.1 if
\* ratio > 1.2, lowered by exactly 0.1 if ratio < 0.8 and unchanged otherwise,
\* before the market multiplier: the final confidence is
\* clamp01((c0 + delta) * multiplier).
C28_PredictorStepThenMultiplier ==
    (/\ lastRequest # NoRequest
     /\ lastRequest.env.pred.ok
     /\ ~lastRequest.opp.confidence.nan
     /\ lastRequest.opp.profitUSD >= 0) =>
        LET delta == RatioDelta(lastRequest.env.pred.value, lastRequest.opp.profitUSD)
            running == ((lastRequest.opp.confidence.v + delta)
                          * AnalyzeMarketConditions(lastRequest.opp,
                                                    lastRequest.env.hour)) \div 10000
        IN  lastEvaluation.confidence
              = Num(IF running < 0 THEN 0 ELSE IF running > 10000 THEN 10000
                    ELSE running)

\* 0.6 raised to 0.7 and then multiplied by 1.1
C28_Witness ==
    /\ lastRequest # NoRequest
    /\ lastRequest.opp.confidence = Num(6000)
    /\ lastRequest.opp.profitUSD = 40
    /\ lastRequest.env.pred = Pred(200)
    /\ lastRequest.env.hour = 12
    /\ lastEvaluation.confidence = Num(7700)

\* C29: adjustedProfit = base - max(0, gasEstimate - optimalGas) * 2000, base
\* being the prediction when there is one and the opportunity's profitUSD
\* otherwise; the gas step never increases it, and the recommendation compares
\* this value with minProfitThreshold.
C29_AdjustedProfitAfterGas ==
    lastRequest # NoRequest =>
        LET base == IF lastRequest.env.pred.ok THEN lastRequest.env.pred.value
                    ELSE lastRequest.opp.profitUSD
            excess == IF lastRequest.opp.gasEstimate > 10
                      THEN (lastRequest.opp.gasEstimate - 10) * 2 ELSE 0
        IN  /\ lastEvaluation.adjustedProfit = base - excess
            /\ lastEvaluation.adjustedProfit <= base
            /\ lastEvaluation.adjustedProfit <= config.minProfitThresholdUSD
                  => lastEvaluation.recommendation # "EXECUTE"

\* a profit above the threshold before the gas step and below it after, at
\* full confidence, is not executed
C29_Witness ==
    /\ lastRequest # NoRequest
    /\ ~lastRequest.env.pred.ok
    /\ lastRequest.opp.profitUSD = 40
    /\ lastRequest.opp.gasEstimate = 60
    /\ lastEvaluation.adjustedProfit = -60
    /\ lastEvaluation.confidence = Num(10000)
    /\ lastEvaluation.recommendation = "SKIP"

\* C30: within a cycle, no opportunity is filtered or handed to execution
\* while an opportunity of the cycle is still unevaluated.
C30_EvaluationBarrier ==
    \A c \in Cycles :
        LET r == cycles[c]
        IN  (r.pc \in {"executing", "trading"} \/ r.attempts # <<>>) =>
              /\ Len(r.evaluatedOpportunities) = Len(r.opportunities)
              /\ \A i \in DOMAIN r.opportunities :
                    \E j \in DOMAIN r.evaluatedOpportunities :
                        r.evaluatedOpportunities[j].id = r.opportunities[i].id

\* the first of two opportunities is being traded, both are evaluated
C30_Witness ==
    \E c \in Cycles :
        /\ cycles[c].pc = "trading"
        /\ Len(cycles[c].attempts) = 1
        /\ Len(cycles[c].opportunities) = 2
        /\ Len(cycles[c].evaluatedOpportunities) = 2

\* the counters and running averages after the first n results of history are
\* applied one at a time, in the order of the history
RECURSIVE Folded(_, _)
Folded(history, n) ==
    IF n = 0
    THEN [totalTrades |-> 0, successfulTrades |-> 0, failedTrades |-> 0,
          totalProfitUSD |-> 0, totalLossUSD |-> 0, netProfitUSD |-> 0,
          timeSum |-> 0]
    ELSE LET m == Folded(history, n - 1)
             t == history[n]
             magnitude == IF t.profitUSD < 0 THEN -t.profitUSD ELSE t.profitUSD
         IN  [totalTrades |-> m.totalTrades + 1,
              successfulTrades |-> m.successfulTrades + (IF t.success THEN 1 ELSE 0),
              failedTrades |-> m.failedTrades + (IF t.success THEN 0 ELSE 1),
              totalProfitUSD |-> m.totalProfitUSD + (IF t.success THEN t.profitUSD ELSE 0),
              totalLossUSD |-> m.totalLossUSD + (IF t.success THEN 0 ELSE magnitude),
              netProfitUSD |-> m.netProfitUSD
                                 + (IF t.success THEN t.profitUSD ELSE -magnitude),
              timeSum |-> m.timeSum + t.executionTime]

\* the metrics m are those of folding history
IsFoldOf(m, history) ==
    LET f == Folded(history, Len(history))
    IN  /\ m.totalTrades = f.totalTrades
        /\ m.successfulTrades = f.successfulTrades
        /\ m.failedTrades = f.failedTrades
        /\ m.totalProfitUSD = f.totalProfitUSD
        /\ m.totalLossUSD = f.totalLossUSD
        /\ m.netProfitUSD = f.netProfitUSD
        /\ f.totalTrades > 0 =>
              /\ m.successRate = (f.successfulTrades * 10000) \div f.totalTrades
              /\ m.averageTradeTime = (f.timeSum * 100) \div f.totalTrades

\* C31: recordings serialise.  Whatever the interleaving of the executions of
\* overlapping cycles, the metrics are in every state those of folding the
\* trade history one result at a time in recording order, and a step changes
\* the metrics or the history only by appending one result and folding it
\* (or by a reset): no update is lost and none is seen half applied.
C31_RecordingSerializes ==
    /\ [] IsFoldOf(metrics, tradeHistory)
    /\ [][(metrics' # metrics \/ tradeHistory' # tradeHistory) =>
            \/ /\ tradeHistory' = <<>>
               /\ metrics' = InitialMetrics
            \/ /\ Len(tradeHistory') = Len(tradeHistory) + 1
               /\ SubSeq(tradeHistory', 1, Len(tradeHistory)) = tradeHistory
               /\ metrics'.totalTrades = metrics.totalTrades + 1
               /\ Cardinality(Returning(cycles, cycles')) = 1]_vars

\* two cycles overlapped: the trade of the later cycle was recorded first, the
\* trade of the earlier one second
C31_Witness ==
    /\ Len(tradeHistory) = 2
    /\ tradeHistory[1].opportunity = <<"A", 2>>
    /\ tradeHistory[2].opportunity = <<"A", 1>>
    /\ tradeHistory[1].success
    /\ tradeHistory[2].success
    /\ metrics.totalProfitUSD = 80

\* the cycles whose next opportunity checkRiskLimits refuses in this step
Rejecting(before, after) ==
    {c \in Cycles :
        /\ before[c].pc = "executing"
        /\ Len(after[c].attempts) = Len(before[c].attempts) + 1
        /\ ~CheckRiskLimits(config, metrics, before[c].queue[before[c].xi + 1])}

\* C32: the risk check has no side effects.  The step that refuses an
\* opportunity leaves the metrics, the trade history, the strategy registry
\* and the emission counts unchanged and does not hand the opportunity to
\* performTrade; an opportunity above the position limit never gets an
\* outcome or a TradeResult.
C32_RiskGateHasNoSideEffects ==
    /\ [](\A c \in Cycles :
            \A i \in DOMAIN cycles[c].attempts :
                LET id == cycles[c].attempts[i]
                IN  EvaluatedCopy(cycles[c], id).profitUSD
                        > config.maxPositionSizeETH * 2000 =>
                      /\ \A j \in DOMAIN cycles[c].outcomes :
                            cycles[c].outcomes[j].id # id
                      /\ TradesOf(id) = {})
    /\ [][\A c \in Rejecting(cycles, cycles') :
            /\ metrics' = metrics
            /\ tradeHistory' = tradeHistory
            /\ registry' = registry
            /\ registryOrder' = registryOrder
            /\ registryActive' = registryActive
            /\ emits' = emits
            /\ cycles'[c].pc # "trading"
            /\ cycles'[c].outcomes = cycles[c].outcomes
            /\ cycles'[c].attempts
                  = Append(cycles[c].attempts, cycles[c].queue[cycles[c].xi + 1].id)]_vars

\* a cycle has ended in which the first opportunity, of 2500 USD, was refused
\* and the second was traded: the history holds the second only
C32_Witness ==
    \E c \in Cycles :
        /\ cycles[c].pc = "done"
        /\ Len(cycles[c].attempts) = 2
        /\ EvaluatedCopy(cycles[c], cycles[c].attempts[1]).profitUSD = 2500
        /\ Len(cycles[c].outcomes) = 1
        /\ cycles[c].outcomes[1].id = cycles[c].attempts[2]
        /\ Len(tradeHistory) = 1
        /\ tradeHistory[1].opportunity = cycles[c].attempts[2]
        /\ emits.trade_executed = 1

\* C33: across start(), stop() and timer ticks at most one trading-loop
\* interval and at most one performance-monitoring interval are alive, and no
\* performance_update is emitted while the engine is stopped.
C33_OneTimerOfEachKind ==
    /\ [](loopTimers <= 1 /\ perfTimers <= 1)
    /\ [][emits'.performance_update # emits.performance_update => isRunning]_vars

\* C34: every failed TradeResult the engine constructs carries profit 0, so
\* totalLossUSD stays 0, netProfitUSD equals totalProfitUSD and profitFactor
\* stays 0 in every reachable state; with a non-negative maxDailyLossETH the
\* risk check then decides on the position size alone.
C34_EngineNeverBooksALoss ==
    /\ \A i \in DOMAIN tradeHistory :
          ~tradeHistory[i].success => tradeHistory[i].profitUSD = 0
    /\ metrics.totalLossUSD = 0
    /\ metrics.netProfitUSD = metrics.totalProfitUSD
    /\ metrics.profitFactor = 0
    /\ config.maxDailyLossETH >= 0 =>
          \A c \in Cycles :
              cycles[c].pc = "executing" =>
                  LET opp == cycles[c].queue[cycles[c].xi + 1]
                  IN  CheckRiskLimits(config, metrics, opp)
                        = (opp.profitUSD <= config.maxPositionSizeETH * 2000)

\* a failed trade of a 40 USD opportunity is recorded and the opportunity of
\* another cycle is at the risk check
C34_Witness ==
    /\ metrics.failedTrades = 1
    /\ Len(tradeHistory) = 1
    /\ ~tradeHistory[1].success
    /\ \E c \in Cycles :
          /\ cycles[c].pc = "executing"
          /\ cycles[c].queue[cycles[c].xi + 1].profitUSD = 40

\* the ids of the opportunities of cycle record r that were handed to
\* performTrade
Traded(r) ==
    {r.outcomes[j].id : j \in DOMAIN r.outcomes}
      \cup (IF r.pc = "trading" THEN {r.queue[r.xi + 1].id} ELSE {})

\* C35 as stated: an opportunity reaches performTrade in a cycle only if its
\* evaluation in that cycle recommends EXECUTE.
C35_ExecutedOnlyIfRecommended ==
    \A c \in Cycles :
        \A id \in Traded(cycles[c]) :
            evaluationHistory[id].recommendation = "EXECUTE"

\* C35 amended: an opportunity reaches performTrade in a cycle only if the
\* confidence of its evaluation in that cycle is at least confidenceThreshold
\* and the risk check permits its evaluated profit; the recommendation is not
\* consulted.
C35_ExecutedOnlyIfConfident ==
    \A c \in Cycles :
        \A id \in Traded(cycles[c]) :
            /\ FGe(evaluationHistory[id].confidence, config.confidenceThreshold)
            /\ EvaluatedCopy(cycles[c], id).confidence = evaluationHistory[id].confidence
            /\ EvaluatedCopy(cycles[c], id).profitUSD
                  <= config.maxPositionSizeETH * 2000

\* an opportunity evaluated WAIT (adjusted profit 8 USD, not above the minimum
\* of 10, confidence 1) has been traded
C35_Witness ==
    \E c \in Cycles :
        \E j \in DOMAIN cycles[c].outcomes :
            LET evaluation == evaluationHistory[cycles[c].outcomes[j].id]
            IN  /\ cycles[c].outcomes[j].outcome = "success"
                /\ evaluation.recommendation = "WAIT"
                /\ evaluation.adjustedProfit = 8
                /\ evaluation.confidence = Num(10000)

\* the strategies enabled in the registry
EnabledInStore == {id \in DOMAIN registry : registry[id].enabled}

\* C36: every cycle polls exactly the strategies that are enabled in the
\* registry when the cycle starts.  A cycle polls the strategies of the
\* engine's activeStrategies map, so at the step that starts a cycle the map
\* holds exactly the enabled strategies.
C36_CyclePollsEnabledStrategies ==
    [][cycleCount' = cycleCount + 1 =>
         {activeStrategies[i] : i \in DOMAIN activeStrategies} = EnabledInStore]_vars

=============================================================================
